---- MODULE Spec2Model ----
(***************************************************************************)
(* Drawvy whiteboard: the Board component (src/components/Board/index.js). *)
(*                                                                         *)
(* One mounted Board is modelled: its refs (drawHistory, historyPointer,   *)
(* shouldDraw, lastPos), the redux values it selects (actionMenuItem,      *)
(* color/size), the 2D context of its canvas (style, cap/join, current     *)
(* path, painted bitmap) and what each handler emits on the socket.        *)
(*                                                                         *)
(* Browser semantics the code relies on and that are modelled here:        *)
(*  - assigning canvas.width clears the bitmap and resets the context      *)
(*    (style, line cap/join, current path) to its defaults;                *)
(*  - putImageData(undefined, ...) throws a TypeError, and an error thrown *)
(*    by an effect unmounts the component;                                 *)
(*  - stroke() paints every segment of the current path in the current     *)
(*    style; zero-length segments are pruned; lineTo on an empty path only *)
(*    sets the current point;                                              *)
(*  - React runs the effects of an update before it handles another event. *)
(* The bitmap is abstracted to the set of segments painted on it; its      *)
(* dimensions and colours are not part of it (the style of every stroke()  *)
(* call is recorded with the call).                                        *)
(***************************************************************************)
EXTENDS Integers, Sequences, FiniteSets, TLC

\* ---------------------------------------------------------------- bounds
\* Largest number of snapshots recorded (gestures started) in a run.
MaxHist == 3
\* Largest number of messages in flight between two Boards.
MaxWire == 1

\* ---------------------------------------------------------------- values
Pt(x, y) == [x |-> x, y |-> y]

\* pointer positions (clientX, clientY) the input events carry
Points == {Pt(0, 0), Pt(10, 0)}

\* "no point": the current path has no subpath / no remote BeginPath seen
NoPoint == Pt(-1, -1)

Sty(c, s) == [color |-> c, size |-> s]

\* the {color, size} values the Style Source and ConfigMessages carry
Styles == {Sty("#ff0000", 4), Sty("#0000ff", 2)}

\* the Style Source's value when the Board mounts
InitialStyle == Sty("#0000ff", 2)

\* style of a 2D context after its canvas was reset
DefaultStyle == Sty("#000000", 1)

\* MENU_ITEMS one-shot commands; "null" is the cleared action
Commands == {"DOWNLOAD", "UNDO", "REDO"}
Null == "null"

\* the segment between two points (its end points)
Seg(a, b) == {a, b}

\* the empty path of a context
EmptyPath == [segs |-> {}, cur |-> NoPoint]

\* a blank bitmap
Blank == {}

\* socket messages
Msg(type, p) == [type |-> type, x |-> p.x, y |-> p.y]
NoMsg == Msg("none", NoPoint)

\* no image exported
NoImage == <<"none">>

\* no curve issued
NoCurve == [from |-> NoPoint, cp1 |-> NoPoint, cp2 |-> NoPoint, to |-> NoPoint]

VARIABLES
  drawHistory,      \* drawHistory.current: sequence of snapshots
  historyPointer,   \* historyPointer.current (0-based index)
  shouldDraw,       \* shouldDraw.current
  lastPos,          \* lastPos.current
  actionMenuItem,   \* state.menu.actionMenuItem
  effectAction,     \* actionMenuItem as of the last run of the action effect
  tool,             \* {color, size} of state.tool[activeMenuItem]
  ctx,              \* context: strokeStyle+lineWidth (style), lineCap, lineJoin
  path,             \* context: current path (segments and current point)
  surface,          \* canvas bitmap: the segments painted on it
  crashed,          \* an effect threw: the component is unmounted
  remotePrev,       \* history: last point received of the remote stroke
  begun,            \* history: a BeginPath was emitted since the last gesture end
  lastEvent,        \* history: the handler that ran last and its outputs
  peer,             \* a second Board, receiving what this one emits (see Peer)
  pen               \* what was asked of the pen and what it last did (see NoPen)

vars == <<drawHistory, historyPointer, shouldDraw, lastPos, actionMenuItem,
          effectAction, tool, ctx, path, surface, crashed, remotePrev, begun,
          lastEvent, peer, pen>>

\* A handler run: its kind, the point and command it carried and what it found
\* when it began (shouldDraw; for an end or an effect the pointer, for an effect
\* the bitmap, for a received drawLine the remote stroke's previous point), and
\* its outputs: the segments and style of its stroke() call, the message it
\* emitted, the image it exported, the cubic curve it issued.
NoEvent ==
  [kind |-> "mount", p |-> NoPoint, cmd |-> Null, active |-> FALSE,
   ptr |-> 0, was |-> Blank, rprev |-> NoPoint,
   segs |-> {}, style |-> DefaultStyle, emit |-> NoMsg, png |-> NoImage,
   curve |-> NoCurve]

Ev(kind, p, cmd, active) ==
  [NoEvent EXCEPT !.kind = kind, !.p = p, !.cmd = cmd, !.active = active]

\* The receiving Board of a pair: the messages in flight to it (wire), the
\* current path of its context, the segments its stroke() calls rendered since
\* the last beginPath it received (drawn); and, for comparison, the segments
\* the sending Board rendered since its last start (sent).
NoPeer == [wire |-> << >>, path |-> EmptyPath, drawn |-> {}, sent |-> {}]

\* the points of the specifications that draw in two dimensions
PairPoints == Points \cup {Pt(5, 5)}

\* no style
NoStyle == Sty("none", 0)

\* A record of the pen, kept where style is watched (see Watch): the style set
\* last, by the Style Source or by a changeConfig message (set); the style of a
\* changeConfig message received since which no segment was rendered and no
\* other style was set (cfg); the style of the last stroke() call on the
\* current path, that is, the style its segments are painted in (inked).
NoPen == [set |-> InitialStyle, cfg |-> NoStyle, inked |-> NoStyle]

\* the segments of nonzero length among segs: those a stroke() call renders
Rendered(segs) == {g \in segs : Cardinality(g) = 2}

\* ------------------------------------------------------- context helpers
\* context state right after canvas.width / canvas.height were assigned
ResetCtx == [style |-> DefaultStyle, lineCap |-> "butt", lineJoin |-> "miter"]

\* mutant of RoundCaps: cap and join are not set again
KeepCaps(c) == c

\* ctx.lineCap = 'round'; ctx.lineJoin = 'round'
RoundCaps(c) == [c EXCEPT !.lineCap = "round", !.lineJoin = "round"]

\* setupHighResCanvas: reset the canvas, scale, round cap and join
setupHighResCanvas == RoundCaps(ResetCtx)

\* changeConfig(color, size)
changeConfig(c, s) == RoundCaps([c EXCEPT !.style = s])

\* context.stroke(): paint the segments of path p over bitmap b
Stroke(b, p) == b \cup {g \in p.segs : Cardinality(g) = 2}

\* context.beginPath(); context.moveTo(a)
BeginAt(a) == [segs |-> {}, cur |-> a]

\* context.lineTo(b) / bezierCurveTo(.., b) on path p
LineTo(p, b) ==
  IF p.cur = NoPoint THEN [segs |-> p.segs, cur |-> b]
  ELSE [segs |-> p.segs \cup {Seg(p.cur, b)}, cur |-> b]

\* mutant of drawSmoothLine: the curve starts at its own end point
drawSmoothLineDot(a, b) == LineTo(BeginAt(b), b)

\* drawSmoothLine(context, a, b): the path it leaves behind
drawSmoothLine(a, b) == LineTo(BeginAt(a), b)

\* mutant of bezierCurve: control points at a quarter and three quarters
bezierCurveQuarters(a, b) ==
  [from |-> a,
   cp1 |-> Pt((100 * a.x + 25 * (b.x - a.x)) \div 10,
              (100 * a.y + 25 * (b.y - a.y)) \div 10),
   cp2 |-> Pt((100 * a.x + 75 * (b.x - a.x)) \div 10,
              (100 * a.y + 75 * (b.y - a.y)) \div 10),
   to |-> b]

\* the moveTo / bezierCurveTo calls of drawSmoothLine(context, a.x, a.y, b.x, b.y):
\* start point, control points x1 + (x2 - x1) * 0.3 and x1 + (x2 - x1) * 0.7
\* (likewise y), end point. The control points are kept in tenths of a unit,
\* so that 0.3 and 0.7 are exact.
bezierCurve(a, b) ==
  [from |-> a,
   cp1 |-> Pt(10 * a.x + 3 * (b.x - a.x), 10 * a.y + 3 * (b.y - a.y)),
   cp2 |-> Pt(10 * a.x + 7 * (b.x - a.x), 10 * a.y + 7 * (b.y - a.y)),
   to |-> b]

\* canvas.toDataURL('image/png') of bitmap b
toDataURL(b) == <<"png", b>>

\* context.getImageData(0, 0, canvas.width, canvas.height)
getImageData(b) == b

\* context.putImageData(imageData, 0, 0) on bitmap b
putImageData(b, imageData) == imageData

\* ---------------------------------------------------------------- state
Segments == {Seg(a, b) : a, b \in Points}

TypeOK ==
  /\ drawHistory \in Seq(SUBSET Segments)
  /\ Len(drawHistory) <= MaxHist
  /\ historyPointer \in -1 .. MaxHist
  /\ shouldDraw \in BOOLEAN
  /\ lastPos \in Points
  /\ actionMenuItem \in Commands \cup {Null}
  /\ effectAction \in Commands \cup {Null}
  /\ tool \in Styles
  /\ ctx.style \in Styles \cup {DefaultStyle}
  /\ path.segs \subseteq Segments
  /\ path.cur \in Points \cup {NoPoint}
  /\ surface \subseteq Segments
  /\ crashed \in BOOLEAN
  /\ remotePrev \in Points \cup {NoPoint}
  /\ begun \in BOOLEAN

\* no effect is waiting to run: React has flushed every effect of the last update
EffectsIdle == actionMenuItem = effectAction

\* the component is mounted and ready to handle an event
Ready == ~crashed /\ EffectsIdle

Init ==
  /\ drawHistory = << >>
  /\ historyPointer = 0
  /\ shouldDraw = FALSE
  /\ lastPos = Pt(0, 0)
  /\ actionMenuItem = Null
  /\ effectAction = Null
  /\ tool = InitialStyle
  /\ ctx = changeConfig(setupHighResCanvas, tool)
  /\ path = EmptyPath
  /\ surface = Blank
  /\ crashed = FALSE
  /\ remotePrev = NoPoint
  /\ begun = FALSE
  /\ lastEvent = NoEvent
  /\ peer = NoPeer
  /\ pen = NoPen

\* ------------------------------------------------------------- gestures
\* mutant of startMessage: the message carries the previous position
startMessageStale(p) == Msg("beginPath", lastPos)

\* socket.emit("beginPath", { x: pos.clientX, y: pos.clientY })
startMessage(p) == Msg("beginPath", p)

\* handleDrawStart (mousedown, touchstart)
handleDrawStart(p) ==
  /\ Ready
  /\ shouldDraw \/ Len(drawHistory) < MaxHist
  /\ shouldDraw' = TRUE
  /\ lastPos' = p
  /\ path' = BeginAt(p)
  /\ begun' = (startMessage(p).type = "beginPath")
  /\ lastEvent' = [Ev("start", p, Null, shouldDraw) EXCEPT
                     !.emit = startMessage(p)]
  /\ UNCHANGED <<drawHistory, historyPointer, actionMenuItem, effectAction,
                 tool, ctx, surface, crashed, remotePrev>>

\* mutant of DrawMoveActive: the guard is missing
DrawMoveAlways == TRUE

\* if (!shouldDraw.current) return;  in handleDrawMove
DrawMoveActive == shouldDraw

\* mutant of movedTo: the last point is not advanced
movedNowhere(p) == lastPos

\* lastPos.current = { x: pos.clientX, y: pos.clientY }  in handleDrawMove
movedTo(p) == p

\* handleDrawMove (mousemove, touchmove)
handleDrawMove(p) ==
  /\ Ready
  /\ IF ~DrawMoveActive
     THEN /\ lastEvent' = Ev("move", p, Null, shouldDraw)
          /\ UNCHANGED <<lastPos, path, surface>>
     ELSE /\ path' = drawSmoothLine(lastPos, p)
          /\ surface' = Stroke(surface, path')
          /\ lastPos' = movedTo(p)
          /\ lastEvent' = [Ev("move", p, Null, shouldDraw) EXCEPT
                             !.segs = path'.segs, !.style = ctx.style,
                             !.curve = bezierCurve(lastPos, p),
                             !.emit = Msg("drawLine", p)]
  /\ UNCHANGED <<drawHistory, historyPointer, shouldDraw, actionMenuItem,
                 effectAction, tool, ctx, crashed, remotePrev, begun>>

\* mutant of DrawEndActive: the guard is missing
DrawEndAlways == TRUE

\* if (!shouldDraw.current) return;  in handleDrawEnd
DrawEndActive == shouldDraw

\* mutant of push: the snapshot is put in front
unshift(h, imageData) == <<imageData>> \o h

\* drawHistory.current.push(imageData)
push(h, imageData) == Append(h, imageData)

\* mutant of lastIndex: off by one
lengthOf(h) == Len(h)

\* historyPointer.current = drawHistory.current.length - 1
lastIndex(h) == Len(h) - 1

\* handleDrawEnd (mouseup, mouseout, touchend)
handleDrawEnd ==
  /\ Ready
  /\ lastEvent' = [Ev("end", NoPoint, Null, shouldDraw) EXCEPT
                     !.ptr = historyPointer]
  /\ IF ~DrawEndActive
     THEN UNCHANGED <<shouldDraw, drawHistory, historyPointer, begun>>
     ELSE /\ shouldDraw' = FALSE
          /\ drawHistory' = push(drawHistory, getImageData(surface))
          /\ historyPointer' = lastIndex(drawHistory')
          /\ begun' = FALSE
  /\ UNCHANGED <<lastPos, actionMenuItem, effectAction, tool, ctx, path,
                 surface, crashed, remotePrev>>

\* ------------------------------------------------------------- commands
\* the Action Dispatcher: dispatch(actionItemClick(cmd)) from the menu
Deliver(cmd) ==
  /\ Ready
  /\ actionMenuItem' = cmd
  /\ lastEvent' = Ev("deliver", NoPoint, cmd, shouldDraw)
  /\ UNCHANGED <<drawHistory, historyPointer, shouldDraw, lastPos, effectAction,
                 tool, ctx, path, surface, crashed, remotePrev, begun>>

\* mutant of newPointer: no clamping
newPointerUnclamped(cmd, p, len) == IF cmd = "UNDO" THEN p - 1 ELSE p + 1

\* Math.max(0, p - 1) for UNDO, Math.min(len - 1, p + 1) for REDO
newPointer(cmd, p, len) ==
  IF cmd = "UNDO"
  THEN (IF p - 1 > 0 THEN p - 1 ELSE 0)
  ELSE (IF p + 1 < len - 1 THEN p + 1 ELSE len - 1)

\* drawHistory.current[i] is an ImageData (not undefined)
HasSnapshot(i) == i >= 0 /\ i < Len(drawHistory)

\* the effect on [actionMenuItem, dispatch]: runs when actionMenuItem changed
ActionEffect ==
  /\ ~crashed
  /\ actionMenuItem # effectAction
  /\ effectAction' = actionMenuItem
  /\ ctx' = setupHighResCanvas
  /\ path' = EmptyPath
  /\ IF actionMenuItem = "DOWNLOAD"
     THEN /\ lastEvent' = [Ev("effect", NoPoint, actionMenuItem, shouldDraw)
                             EXCEPT !.ptr = historyPointer, !.was = surface,
                                    !.png = toDataURL(Blank)]
          /\ surface' = Blank
          /\ actionMenuItem' = Null
          /\ UNCHANGED <<historyPointer, crashed>>
     ELSE IF actionMenuItem \in {"UNDO", "REDO"}
     THEN LET np == newPointer(actionMenuItem, historyPointer, Len(drawHistory))
          IN /\ historyPointer' = np
             /\ lastEvent' = [Ev("effect", NoPoint, actionMenuItem, shouldDraw)
                                EXCEPT !.ptr = historyPointer, !.was = surface]
             /\ IF HasSnapshot(np)
                THEN /\ surface' = putImageData(Blank, drawHistory[np + 1])
                     /\ actionMenuItem' = Null
                     /\ crashed' = FALSE
                ELSE /\ surface' = Blank
                     /\ crashed' = TRUE
                     /\ UNCHANGED actionMenuItem
     ELSE /\ surface' = Blank
          /\ lastEvent' = Ev("ack", NoPoint, effectAction, shouldDraw)
          /\ UNCHANGED <<actionMenuItem, historyPointer, crashed>>
  /\ UNCHANGED <<drawHistory, shouldDraw, lastPos, tool, remotePrev, begun>>

\* ---------------------------------------------------- style and resizing
\* the Style Source changes color/size: the config effect runs changeConfig
StyleChange(s) ==
  /\ Ready
  /\ s # tool
  /\ tool' = s
  /\ ctx' = changeConfig(ctx, s)
  /\ lastEvent' = Ev("style", NoPoint, Null, shouldDraw)
  /\ UNCHANGED <<drawHistory, historyPointer, shouldDraw, lastPos,
                 actionMenuItem, effectAction, path, surface, crashed,
                 remotePrev, begun>>

\* socket "changeConfig": handleChangeConfig
handleChangeConfig(s) ==
  /\ Ready
  /\ ctx' = changeConfig(ctx, s)
  /\ lastEvent' = Ev("config", NoPoint, Null, shouldDraw)
  /\ UNCHANGED <<drawHistory, historyPointer, shouldDraw, lastPos,
                 actionMenuItem, effectAction, tool, path, surface, crashed,
                 remotePrev, begun>>

\* window "resize": resizeCanvas
resizeCanvas ==
  /\ Ready
  /\ ctx' = RoundCaps(ResetCtx)
  /\ path' = EmptyPath
  /\ surface' = Blank
  /\ lastEvent' = Ev("resize", NoPoint, Null, shouldDraw)
  /\ UNCHANGED <<drawHistory, historyPointer, shouldDraw, lastPos,
                 actionMenuItem, effectAction, tool, crashed, remotePrev, begun>>

\* -------------------------------------------------------- remote strokes
\* mutant of onBeginPath: the remote point becomes the local last point
onBeginPathTracking(p) ==
  /\ Ready
  /\ path' = BeginAt(p)
  /\ remotePrev' = p
  /\ lastPos' = p
  /\ lastEvent' = Ev("recvBegin", p, Null, shouldDraw)
  /\ UNCHANGED <<drawHistory, historyPointer, shouldDraw, actionMenuItem,
                 effectAction, tool, ctx, surface, crashed, begun>>

\* socket "beginPath"
onBeginPath(p) ==
  /\ Ready
  /\ path' = BeginAt(p)
  /\ remotePrev' = p
  /\ lastEvent' = Ev("recvBegin", p, Null, shouldDraw)
  /\ UNCHANGED <<drawHistory, historyPointer, shouldDraw, lastPos,
                 actionMenuItem, effectAction, tool, ctx, surface, crashed,
                 begun>>

\* socket "drawLine"
onDrawLine(p) ==
  /\ Ready
  /\ path' = LineTo(path, p)
  /\ surface' = Stroke(surface, path')
  /\ remotePrev' = IF remotePrev = NoPoint THEN NoPoint ELSE p
  /\ lastEvent' = [Ev("recvLine", p, Null, shouldDraw) EXCEPT
                     !.rprev = remotePrev,
                     !.segs = path'.segs, !.style = ctx.style]
  /\ UNCHANGED <<drawHistory, historyPointer, shouldDraw, lastPos,
                 actionMenuItem, effectAction, tool, ctx, crashed, begun>>

Next ==
  \/ \E p \in Points : handleDrawStart(p) /\ UNCHANGED <<peer, pen>>
  \/ \E p \in Points : handleDrawMove(p) /\ UNCHANGED <<peer, pen>>
  \/ handleDrawEnd /\ UNCHANGED <<peer, pen>>
  \/ \E cmd \in Commands : Deliver(cmd) /\ UNCHANGED <<peer, pen>>
  \/ ActionEffect /\ UNCHANGED <<peer, pen>>
  \/ \E s \in Styles : StyleChange(s) /\ UNCHANGED <<peer, pen>>
  \/ \E s \in Styles : handleChangeConfig(s) /\ UNCHANGED <<peer, pen>>
  \/ resizeCanvas /\ UNCHANGED <<peer, pen>>
  \/ \E p \in Points : onBeginPath(p) /\ UNCHANGED <<peer, pen>>
  \/ \E p \in Points : onDrawLine(p) /\ UNCHANGED <<peer, pen>>

\* one Board alone: no second Board is attached
Spec == Init /\ [][Next]_vars

\* React runs a pending effect: the action effect is never postponed forever
FairSpec == Spec /\ WF_vars(ActionEffect /\ UNCHANGED <<peer, pen>>)

\* One remote stroke replayed on a Board whose user draws at the same time:
\* only the local gesture handlers and the two stroke messages run.
StrokeNext ==
  \/ \E p \in Points : handleDrawStart(p) /\ UNCHANGED <<peer, pen>>
  \/ \E p \in Points : handleDrawMove(p) /\ UNCHANGED <<peer, pen>>
  \/ handleDrawEnd /\ UNCHANGED <<peer, pen>>
  \/ \E p \in Points : onBeginPath(p) /\ UNCHANGED <<peer, pen>>
  \/ \E p \in Points : onDrawLine(p) /\ UNCHANGED <<peer, pen>>

StrokeSpec == Init /\ [][StrokeNext]_vars

\* --------------------------------------------- a Board with its pen watched
\* The pen record after a handler run that asked for style `set` and left the
\* changeConfig style `cfg` waiting for its first segment.
Watch(set, cfg) ==
  pen' = [set |-> set,
          cfg |-> IF Rendered(lastEvent'.segs) # {} THEN NoStyle ELSE cfg,
          inked |-> IF path'.segs = {} THEN NoStyle
                    ELSE IF lastEvent'.segs # {} THEN lastEvent'.style
                    ELSE pen.inked]

\* a handler run that sets no style
Watched == Watch(pen.set, pen.cfg) /\ UNCHANGED peer

StyleNext ==
  \/ \E p \in Points : handleDrawStart(p) /\ Watched
  \/ \E p \in Points : handleDrawMove(p) /\ Watched
  \/ handleDrawEnd /\ Watched
  \/ \E cmd \in Commands : Deliver(cmd) /\ Watched
  \/ ActionEffect /\ Watched
  \/ \E s \in Styles : StyleChange(s) /\ Watch(s, NoStyle) /\ UNCHANGED peer
  \/ \E s \in Styles : handleChangeConfig(s) /\ Watch(s, s) /\ UNCHANGED peer
  \/ resizeCanvas /\ Watched
  \/ \E p \in Points : onBeginPath(p) /\ Watched
  \/ \E p \in Points : onDrawLine(p) /\ Watched

StyleSpec == Init /\ [][StyleNext]_vars

\* A remote stroke replayed while the style changes: only the two stroke
\* messages, the Style Source and the changeConfig message run.
RestyleNext ==
  \/ \E s \in Styles : StyleChange(s) /\ Watch(s, NoStyle) /\ UNCHANGED peer
  \/ \E s \in Styles : handleChangeConfig(s) /\ Watch(s, s) /\ UNCHANGED peer
  \/ \E p \in PairPoints : onBeginPath(p) /\ Watched
  \/ \E p \in PairPoints : onDrawLine(p) /\ Watched

RestyleSpec == Init /\ [][RestyleNext]_vars

\* ------------------------------------------------------- a pair of Boards
\* Two Boards on one transport: this Board draws, the transport carries what it
\* emits, in order and without loss, to a peer that only receives.

\* socket.emit on the sending Board: the message goes on the wire; the
\* segments the sender's own stroke() call rendered are kept for comparison
Transmit(restart) ==
  /\ Len(peer.wire) < MaxWire
  /\ peer' = IF lastEvent'.emit = NoMsg THEN peer
             ELSE [peer EXCEPT
                     !.wire = Append(@, lastEvent'.emit),
                     !.sent = IF restart THEN {} ELSE @ \cup lastEvent'.segs]

SendStart(p) == handleDrawStart(p) /\ Transmit(TRUE) /\ UNCHANGED pen

SendMove(p) == handleDrawMove(p) /\ Transmit(FALSE) /\ UNCHANGED pen

SendEnd == handleDrawEnd /\ UNCHANGED <<peer, pen>>

\* the peer's socket.on("beginPath") / socket.on("drawLine") handler takes the
\* next message off the wire
PeerReceive ==
  /\ peer.wire # << >>
  /\ LET m == Head(peer.wire)
         q == Pt(m.x, m.y)
     IN IF m.type = "beginPath"
        THEN peer' = [peer EXCEPT !.wire = Tail(@), !.path = BeginAt(q),
                                  !.drawn = {}]
        ELSE LET np == LineTo(peer.path, q)
             IN peer' = [peer EXCEPT !.wire = Tail(@), !.path = np,
                                     !.drawn = @ \cup np.segs]
  /\ UNCHANGED <<drawHistory, historyPointer, shouldDraw, lastPos,
                 actionMenuItem, effectAction, tool, ctx, path, surface,
                 crashed, remotePrev, begun, lastEvent, pen>>

PairNext ==
  \/ \E p \in PairPoints : SendStart(p)
  \/ \E p \in PairPoints : SendMove(p)
  \/ SendEnd
  \/ PeerReceive

PairSpec == Init /\ [][PairNext]_vars

\* ================================================================ claims
Max(a, b) == IF a > b THEN a ELSE b
Min(a, b) == IF a < b THEN a ELSE b

\* the last handler run was the action effect consuming an Undo or a Redo
UndoRedoRan == lastEvent.kind = "effect" /\ lastEvent.cmd \in {"UNDO", "REDO"}

\* the last handler run was handleDrawEnd / handleDrawMove, gesture active or not
EndRan(active) == lastEvent.kind = "end" /\ lastEvent.active = active
MoveRan(active) == lastEvent.kind = "move" /\ lastEvent.active = active

\* C1: whenever the snapshot sequence is non-empty, 0 <= pointer < len(snapshots),
\* in every state reachable by gestures, commands, resizes and received messages.
C1_PointerInBounds ==
  Len(drawHistory) > 0 =>
    (0 <= historyPointer /\ historyPointer < Len(drawHistory))

\* C1 witness: an Undo clamped at index 0 of a history of two or more snapshots.
C1_Witness ==
  /\ UndoRedoRan /\ lastEvent.cmd = "UNDO"
  /\ Len(drawHistory) >= 2 /\ lastEvent.ptr = 0 /\ historyPointer = 0

\* C2: once an Undo or Redo on a non-empty history is consumed and acknowledged
\* (the effect run caused by clearing the action has finished) and nothing else
\* has happened, the visible surface equals snapshots[pointer].
C2_SurfaceShowsPointer ==
  (lastEvent.kind = "ack" /\ lastEvent.cmd \in {"UNDO", "REDO"}
     /\ Len(drawHistory) > 0 /\ HasSnapshot(historyPointer))
    => surface = drawHistory[historyPointer + 1]

\* C3: an Undo or Redo consumed while the history is empty raises no error,
\* leaves the pointer at 0 and leaves the surface as it was.
C3_EmptyHistoryGuarded ==
  (UndoRedoRan /\ Len(drawHistory) = 0)
    => (~crashed /\ historyPointer = 0 /\ surface = lastEvent.was)

\* C4: every delivered command is eventually cleared: a pending action leads to
\* the action being null, in every history state.
C4_CommandCleared == (actionMenuItem # Null) ~> (actionMenuItem = Null)

\* C5: on a non-empty history Undo sets pointer to max(0, pointer - 1) and Redo
\* to min(len - 1, pointer + 1), without an error; at pointer 0 (Undo) and at
\* len - 1 (Redo) the pointer stays; the action effect never changes the
\* snapshot sequence.
C5_UndoRedoClamped ==
  /\ [](UndoRedoRan /\ Len(drawHistory) > 0 =>
         /\ ~crashed
         /\ lastEvent.cmd = "UNDO" =>
               historyPointer = Max(0, lastEvent.ptr - 1)
         /\ lastEvent.cmd = "REDO" =>
               historyPointer = Min(Len(drawHistory) - 1, lastEvent.ptr + 1)
         /\ (lastEvent.cmd = "UNDO" /\ lastEvent.ptr = 0) => historyPointer = 0
         /\ (lastEvent.cmd = "REDO" /\ lastEvent.ptr = Len(drawHistory) - 1)
               => historyPointer = lastEvent.ptr)
  /\ [][lastEvent'.kind \in {"effect", "ack"} => drawHistory' = drawHistory]_vars

\* C5 witness: a Redo that moved the pointer from 0 to 1 in a history of three.
C5_Witness ==
  /\ UndoRedoRan /\ lastEvent.cmd = "REDO"
  /\ Len(drawHistory) = 3 /\ lastEvent.ptr = 0 /\ historyPointer = 1

\* C6: ending an active gesture appends exactly one snapshot, the surface at
\* that instant, at the end of the sequence and points the pointer at it; the
\* earlier snapshots stay, in order, wherever the pointer was; no step ever
\* removes or rewrites a snapshot.
C6_EndAppendsSnapshot ==
  /\ [][(lastEvent'.kind = "end" /\ lastEvent'.active) =>
          /\ drawHistory' = Append(drawHistory, surface)
          /\ historyPointer' = Len(drawHistory)
          /\ surface' = surface]_vars
  /\ [][/\ Len(drawHistory') >= Len(drawHistory)
        /\ SubSeq(drawHistory', 1, Len(drawHistory)) = drawHistory]_vars

\* C6 witness: a gesture ended on a painted surface while the pointer had been
\* moved back to 0 in a history of two; the history now holds three snapshots.
C6_Witness ==
  /\ EndRan(TRUE)
  /\ Len(drawHistory) = 3 /\ lastEvent.ptr = 0 /\ historyPointer = 2
  /\ drawHistory[3] # Blank /\ drawHistory[3] = surface

\* C7: a move while no gesture is active draws nothing, emits nothing and leaves
\* the active flag, the last point, the snapshots and the pointer unchanged.
C7_IdleMoveIsNoOp ==
  [][(lastEvent'.kind = "move" /\ ~lastEvent'.active) =>
       /\ lastEvent'.segs = {} /\ lastEvent'.emit = NoMsg
       /\ UNCHANGED <<surface, path, shouldDraw, lastPos, drawHistory,
                      historyPointer>>]_vars

\* C7 witness: after a gesture has ended, a move to a point other than the last
\* point of that gesture.
C7_Witness ==
  /\ MoveRan(FALSE)
  /\ Len(drawHistory) >= 1 /\ lastEvent.p # lastPos /\ ~shouldDraw

\* C8: an end trigger while Active makes the gesture Idle and records one
\* snapshot; an end trigger while Idle changes nothing; so the number of
\* snapshots grows by one exactly in the steps that go from Active to Idle.
C8_OneSnapshotPerGesture ==
  [][/\ Len(drawHistory') =
          Len(drawHistory) + (IF shouldDraw /\ ~shouldDraw' THEN 1 ELSE 0)
     /\ (lastEvent'.kind = "end" /\ lastEvent'.active) =>
          (shouldDraw /\ ~shouldDraw' /\ Len(drawHistory') = Len(drawHistory) + 1)
     /\ (lastEvent'.kind = "end" /\ ~lastEvent'.active) =>
          UNCHANGED <<drawHistory, historyPointer, shouldDraw, lastPos,
                      surface, path, ctx>>]_vars

\* C8 witness: an end trigger while Idle after a gesture has been recorded
\* (mouseout following mouseup).
C8_Witness == EndRan(FALSE) /\ Len(drawHistory) >= 1 /\ ~shouldDraw

\* C9: every start emits one BeginPath with the start point, every move while
\* Active one DrawLine with the move point, no other handler emits; whenever a
\* DrawLine is emitted a BeginPath was emitted since the last gesture end.
C9_OutboundStream ==
  /\ [][lastEvent'.emit =
          (IF lastEvent'.kind = "start"
             THEN Msg("beginPath", lastEvent'.p)
           ELSE IF lastEvent'.kind = "move" /\ lastEvent'.active
             THEN Msg("drawLine", lastEvent'.p)
           ELSE NoMsg)]_vars
  /\ [](lastEvent.emit.type = "drawLine" => begun)

\* C9 witness: a DrawLine to (10,0) emitted in a gesture begun at (0,0).
C9_Witness ==
  /\ lastEvent.emit = Msg("drawLine", Pt(10, 0))
  /\ begun /\ Seg(Pt(0, 0), Pt(10, 0)) \in lastEvent.segs

\* C10: a received DrawLine renders the segment from the previous point of the
\* remote stroke to the received point, whatever local gesture events occurred
\* between the remote messages.
C10_RemoteSegment ==
  (lastEvent.kind = "recvLine" /\ lastEvent.rprev # NoPoint)
    => Seg(lastEvent.rprev, lastEvent.p) \in lastEvent.segs

\* C11: with one sender, in-order lossless delivery and a receiver that only
\* receives, once every message of the gesture is delivered the segments the
\* receiver rendered for it are exactly the segments the sender rendered.
C11_ReplicaConsistent == peer.wire = << >> => peer.drawn = peer.sent

\* C11 witness: a stroke (5,5) -> (10,0) -> (0,0) fully delivered and replayed.
C11_Witness ==
  /\ peer.wire = << >>
  /\ peer.drawn = {Seg(Pt(5, 5), Pt(10, 0)), Seg(Pt(10, 0), Pt(0, 0))}
  /\ peer.sent = peer.drawn /\ shouldDraw

\* the last handler run issued a stroke() call with at least one segment
Drew == Rendered(lastEvent.segs) # {}

\* C12: a received BeginPath or DrawLine leaves the snapshot sequence, the
\* pointer, the active flag and the last local point unchanged and emits nothing.
C12_RemoteLeavesLocalState ==
  [][lastEvent'.kind \in {"recvBegin", "recvLine"} =>
       /\ UNCHANGED <<drawHistory, historyPointer, shouldDraw, lastPos>>
       /\ lastEvent'.emit = NoMsg]_vars

\* C12 witness: a DrawLine received and rendered during an active local
\* gesture, with one snapshot recorded, at a point other than the local one.
C12_Witness ==
  /\ lastEvent.kind = "recvLine" /\ Drew
  /\ shouldDraw /\ Len(drawHistory) >= 1 /\ lastEvent.p # lastPos

\* C14: a Download exports the surface as it was when the command was delivered
\* and leaves the surface, the snapshots and the pointer unchanged.
C14_DownloadExportsSurface ==
  (lastEvent.kind = "effect" /\ lastEvent.cmd = "DOWNLOAD")
    => /\ lastEvent.png = <<"png", lastEvent.was>>
       /\ surface = lastEvent.was
       /\ historyPointer = lastEvent.ptr

\* C15: between handler runs, that is wherever a segment can be drawn, the
\* line cap and the line join are 'round', also after a resize or a re-setup.
C15_RoundCapAndJoin == ctx.lineCap = "round" /\ ctx.lineJoin = "round"

\* C15 witness: a resize following a re-setup by the action effect, the Board
\* still drawing.
C15_Witness ==
  /\ lastEvent.kind = "resize" /\ Len(drawHistory) >= 1 /\ shouldDraw
  /\ ctx.style = DefaultStyle

\* C16: the curve of a segment starts at (x1,y1), ends at (x2,y2) and has its
\* control points at 30% and 70% of the way between them (in tenths:
\* 7*x1 + 3*x2 and 3*x1 + 7*x2); from (0,0) to (10,0) they are (3,0) and (7,0).
C16_ControlPoints ==
  (lastEvent.kind = "move" /\ lastEvent.active) =>
    LET c == lastEvent.curve
    IN /\ c.to = lastEvent.p /\ Seg(c.from, c.to) \in lastEvent.segs
       /\ c.cp1 = Pt(7 * c.from.x + 3 * c.to.x, 7 * c.from.y + 3 * c.to.y)
       /\ c.cp2 = Pt(3 * c.from.x + 7 * c.to.x, 3 * c.from.y + 7 * c.to.y)
       /\ (c.from = Pt(0, 0) /\ c.to = Pt(10, 0)) =>
            (c.cp1 = Pt(30, 0) /\ c.cp2 = Pt(70, 0))

\* C16 witness: the segment from (0,0) to (10,0).
C16_Witness ==
  /\ lastEvent.kind = "move" /\ lastEvent.active
  /\ lastEvent.curve.from = Pt(0, 0) /\ lastEvent.curve.to = Pt(10, 0)

\* C19: a handler that emits (start, move while Active) leaves the last point
\* at the point its message carries, and no other handler moves the last point;
\* a local segment starts at the last point, i.e. where the previous segment of
\* the gesture ended or, for the first, at the start point.
C19_SegmentsChain ==
  [][/\ lastEvent'.emit # NoMsg =>
          lastPos' = Pt(lastEvent'.emit.x, lastEvent'.emit.y)
     /\ lastEvent'.emit = NoMsg => lastPos' = lastPos
     /\ (lastEvent'.kind = "move" /\ lastEvent'.active) =>
          /\ shouldDraw /\ begun
          /\ lastEvent'.curve.from = lastPos
          /\ lastEvent'.curve.to = lastPos'
          /\ lastEvent'.segs = {Seg(lastPos, lastPos')}]_vars

\* C19 witness: the second segment of a gesture (0,0) -> (10,0) -> (0,0).
C19_Witness ==
  /\ lastEvent.kind = "move" /\ lastEvent.active /\ shouldDraw
  /\ lastEvent.curve.from = Pt(10, 0) /\ lastPos = Pt(0, 0)
  /\ surface # Blank

\* C13: the first segment rendered after a changeConfig message was received
\* (no other style having been set in between), by a local move or by a
\* received DrawLine, is rendered with the color and size of that message.
C13_ConfigStylesNextSegment ==
  [][(Rendered(lastEvent'.segs) # {} /\ pen.cfg # NoStyle)
       => lastEvent'.style = pen.cfg]_vars

\* C17: every segment rendered, local or remote, is rendered with the style
\* set last by the Style Source or a changeConfig message.
C17_LatestStyleUsed == Drew => lastEvent.style = pen.set

\* C18: a received DrawLine does not repaint in another style the segments of
\* the remote stroke that were rendered before it: a segment of the current
\* path other than the new one is stroked again only in the style it has.
C18_RemoteSegmentsKeepStyle ==
  [][lastEvent'.kind = "recvLine" =>
       \A g \in Rendered(path.segs) :
          (g \in lastEvent'.segs /\ g # Seg(path.cur, lastEvent'.p))
            => lastEvent'.style = pen.inked]_vars

====
